---- MODULE Spec2Model ----
(***************************************************************************)
(* Configuration model, loader and entry point of the CDK application:     *)
(* cdk/config/enums.py, cdk/config/base_config.py, cdk/config/loader.py    *)
(* and cdk/app.py.                                                         *)
(*                                                                         *)
(* Data.  A Python string is the tuple of its characters.  A scalar that   *)
(* the YAML loader (or a caller) hands to a constructor is a record        *)
(* [t, q, s]: t is its Python type, q its numeric payload counted in       *)
(* quarters of a unit (so 0.25, 0.5 and 0.75 are values), s its text.      *)
(* float('nan') and float('inf') are values of their own.  A mapping       *)
(* (keyword arguments, a YAML section, a constructed model) is a function  *)
(* from key names to values; an absent key is outside its DOMAIN.          *)
(*                                                                         *)
(* Input domain.  Numeric fields are given YAML numbers (int, float, .nan, *)
(* .inf), text that is no number, or null; string fields are given text    *)
(* or an int; bool fields a bool or text.  Pydantic's remaining lax        *)
(* conversions (numeric text, bool to int) are outside the inputs drawn.   *)
(***************************************************************************)
EXTENDS Integers, Sequences, FiniteSets, TLC

VARIABLES
  pc,             \* position of the process in app.py
  context,        \* the CDK context the process was invoked with (-c env=.. -c project=..)
  fs,             \* the files below config/: path -> file
  env_name,       \* app.py: env_name
  project_name,   \* app.py: project_name
  config_loader,  \* app.py: config_loader (the ConfigLoader's fields)
  env_config,     \* create_config: env_config
  built,          \* create_config: the dictionary literal as far as it is evaluated
  config,         \* app.py: config (the InfrastructureConfig), empty until assigned
  error,          \* the uncaught exception that ended the process, empty when none
  reads,          \* the paths given to open() so far, in order
  stacks,         \* the stacks constructed so far, in order
  dependencies,   \* the add_dependency edges declared
  synthesized,    \* whether app.synth() has run
  deployed        \* the resources of the EksCluster construct created so far

vars == <<pc, context, fs, env_name, project_name, config_loader, env_config,
          built, config, error, reads, stacks, dependencies, synthesized,
          deployed>>

---------------------------------------------------------------------------
(* Python values *)

PyInt(n) == [t |-> "int", q |-> 4 * n, s |-> <<>>]
PyFloat(quarters) == [t |-> "float", q |-> quarters, s |-> <<>>]
NaN == [t |-> "nan", q |-> 0, s |-> <<>>]
Inf == [t |-> "inf", q |-> 1, s |-> <<>>]
NegInf == [t |-> "inf", q |-> -1, s |-> <<>>]
PyStr(chars) == [t |-> "str", q |-> 0, s |-> chars]
PyBool(b) == [t |-> "bool", q |-> IF b THEN 1 ELSE 0, s |-> <<>>]
None == [t |-> "none", q |-> 0, s |-> <<>>]
PyDict(n) == [t |-> "dict", q |-> n, s |-> <<>>]

IsNumber(v) == v.t \in {"int", "float", "nan", "inf"}

\* Python's < on numbers (IEEE 754 for floats: every comparison with nan is False)
PyLt(a, b) ==
  /\ a.t # "nan" /\ b.t # "nan"
  /\ IF a.t = "inf" THEN a.q < 0 /\ ~(b.t = "inf" /\ b.q < 0)
     ELSE IF b.t = "inf" THEN b.q > 0
     ELSE a.q < b.q

\* Python's == on the values of the model
PyEq(a, b) ==
  IF IsNumber(a) /\ IsNumber(b)
  THEN /\ a.t # "nan" /\ b.t # "nan"
       /\ (a.t = "inf") = (b.t = "inf")
       /\ a.q = b.q
  ELSE a = b

\* Python's >= on numbers
PyGe(a, b) == PyEq(a, b) \/ PyLt(b, a)

---------------------------------------------------------------------------
(* Regular expressions of the Field(pattern=...) constraints.  A pattern is *)
(* a sequence of items [set, min, max]: between min and max characters of   *)
(* set (max = -1: no upper limit).  Patterns are anchored at both ends; the *)
(* engine (pydantic's default, Rust regex) lets $ match at the end of the   *)
(* text only.                                                               *)

Lower == {"a","b","c","d","e","f","g","h","i","j","k","l","m",
          "n","o","p","q","r","s","t","u","v","w","x","y","z"}
Upper == {"A","B","C","D","E","F","G","H","I","J","K","L","M",
          "N","O","P","Q","R","S","T","U","V","W","X","Y","Z"}
Digit == {"0","1","2","3","4","5","6","7","8","9"}

Lit(chars) == [i \in 1..Len(chars) |-> [set |-> {chars[i]}, min |-> 1, max |-> 1]]
Plus(set) == <<[set |-> set, min |-> 1, max |-> -1]>>
Times(set, n) == <<[set |-> set, min |-> n, max |-> n]>>

RECURSIVE MatchFrom(_, _, _, _)
MatchFrom(text, i, re, j) ==
  IF j > Len(re) THEN i = Len(text) + 1
  ELSE LET item == re[j]
           room == Len(text) - i + 1
           most == IF item.max = -1 \/ item.max > room THEN room ELSE item.max
       IN \E k \in item.min..most :
            /\ \A d \in 0..(k - 1) : text[i + d] \in item.set
            /\ MatchFrom(text, i + k, re, j + 1)

\* A variant of Matches: the pattern is not anchored at the end
Matches_prefix(re, text) ==
  \E n \in 0..Len(text) : MatchFrom(SubSeq(text, 1, n), 1, re, 1)

Matches(re, text) == MatchFrom(text, 1, re, 1)

\* r"^arn:aws:acm:[a-z0-9-]+:\d{12}:certificate/[a-zA-Z0-9-]+$"
CertificateArnPattern ==
  Lit(<<"a","r","n",":","a","w","s",":","a","c","m",":">>) \o Plus(Lower \cup Digit \cup {"-"}) \o Lit(<<":">>)
    \o Times(Digit, 12) \o Lit(<<":","c","e","r","t","i","f","i","c","a","t","e","/">>)
    \o Plus(Lower \cup Upper \cup Digit \cup {"-"})

\* r"^arn:aws:codeconnections:[a-z0-9-]+:\d{12}:connection/[a-zA-Z0-9-]+$"
ConnectionArnPattern ==
  Lit(<<"a","r","n",":","a","w","s",":","c","o","d","e","c","o","n","n","e","c","t","i","o","n","s",":">>) \o Plus(Lower \cup Digit \cup {"-"}) \o Lit(<<":">>)
    \o Times(Digit, 12) \o Lit(<<":","c","o","n","n","e","c","t","i","o","n","/">>)
    \o Plus(Lower \cup Upper \cup Digit \cup {"-"})

---------------------------------------------------------------------------
(* enums.py *)

\* A variant of EnvironmentName: a fourth member QA = "qa"
EnvironmentName_qa == {<<"d","e","v">>, <<"s","t","a","g","i","n","g">>, <<"p","r","o","d">>, <<"q","a">>}

EnvironmentName == {<<"d","e","v">>, <<"s","t","a","g","i","n","g">>, <<"p","r","o","d">>}

AwsRegion == {<<"e","u","-","w","e","s","t","-","1">>, <<"e","u","-","w","e","s","t","-","2">>, <<"e","u","-","w","e","s","t","-","3">>, <<"e","u","-","c","e","n","t","r","a","l","-","1">>,
              <<"u","s","-","e","a","s","t","-","1">>, <<"u","s","-","e","a","s","t","-","2">>, <<"u","s","-","w","e","s","t","-","1">>, <<"u","s","-","w","e","s","t","-","2">>}

---------------------------------------------------------------------------
(* pydantic.BaseModel as base_config.py uses it: declared fields with a    *)
(* type, a default or none (required), and the Field constraints ge and    *)
(* pattern; model_config is the default one (lax conversion, unknown keys  *)
(* ignored, defaults not validated, nan and inf allowed).                  *)

Required(name, type) ==
  [name |-> name, type |-> type, required |-> TRUE, default |-> None,
   has_ge |-> FALSE, ge |-> None, has_pattern |-> FALSE, pattern |-> <<>>]

Defaulted(name, type, default) ==
  [name |-> name, type |-> type, required |-> FALSE, default |-> default,
   has_ge |-> FALSE, ge |-> None, has_pattern |-> FALSE, pattern |-> <<>>]

WithGe(f, bound) == [f EXCEPT !.has_ge = TRUE, !.ge = bound]

WithPattern(f, re) == [f EXCEPT !.has_pattern = TRUE, !.pattern = re]

\* The conversion of an input to a field's declared type: [ok, v].
Convert(type, v) ==
  CASE type = "str" -> [ok |-> v.t = "str", v |-> v]
    [] type = "Optional[str]" -> [ok |-> v.t \in {"str", "none"}, v |-> v]
    [] type = "bool" -> [ok |-> v.t = "bool", v |-> v]
    [] type = "Dict[str, str]" -> [ok |-> v.t = "dict", v |-> v]
    [] type = "float" ->
         IF v.t = "int" THEN [ok |-> TRUE, v |-> PyFloat(v.q)]
         ELSE [ok |-> v.t \in {"float", "nan", "inf"}, v |-> v]
    [] type = "int" ->
         IF v.t = "float" /\ v.q % 4 = 0 THEN [ok |-> TRUE, v |-> PyInt(v.q \div 4)]
         ELSE [ok |-> v.t = "int", v |-> v]
    [] type = "AwsRegion" -> [ok |-> v.t = "str" /\ v.s \in AwsRegion, v |-> v]
    [] type = "EnvironmentName" ->
         [ok |-> v.t = "str" /\ v.s \in EnvironmentName, v |-> v]

\* A variant of ValidateField: ge read as gt (an error when value <= ge)
ValidateField_gt(f, v) ==
  LET c == Convert(f.type, v)
  IN IF ~c.ok THEN c
     ELSE [ok |-> /\ (f.has_ge => PyLt(f.ge, c.v))
                  /\ (f.has_pattern => Matches(f.pattern, c.v.s)),
           v |-> c.v]

\* One field's validation: conversion, then ge (an error when value < ge),
\* then pattern.
ValidateField(f, v) ==
  LET c == Convert(f.type, v)
  IN IF ~c.ok THEN c
     ELSE [ok |-> /\ (f.has_ge => ~PyLt(c.v, f.ge))
                  /\ (f.has_pattern => Matches(f.pattern, c.v.s)),
           v |-> c.v]

FieldNames(fields) == {fields[i].name : i \in DOMAIN fields}

FieldNamed(fields, name) ==
  fields[CHOOSE i \in DOMAIN fields : fields[i].name = name]

\* The names of the fields whose validation fails: a required field that is
\* absent, or a supplied value that its field rejects.
FieldErrors(fields, kwargs) ==
  {n \in FieldNames(fields) :
     LET f == FieldNamed(fields, n)
     IN IF n \in DOMAIN kwargs THEN ~ValidateField(f, kwargs[n]).ok
        ELSE f.required}

\* A variant of FieldValues: defaults fill a section only when it supplies nothing
FieldValues_whole(fields, kwargs) ==
  [n \in FieldNames(fields) |->
     LET f == FieldNamed(fields, n)
     IN IF n \in DOMAIN kwargs THEN ValidateField(f, kwargs[n]).v
        ELSE IF DOMAIN kwargs = {} THEN f.default
        ELSE None]

\* The validated fields: the converted input where supplied, else the default.
\* Keys of kwargs that name no field are dropped.
FieldValues(fields, kwargs) ==
  [n \in FieldNames(fields) |->
     LET f == FieldNamed(fields, n)
     IN IF n \in DOMAIN kwargs THEN ValidateField(f, kwargs[n]).v
        ELSE f.default]

NoObject == <<>>
NoError == [type |-> "", loc |-> {}, msg |-> <<>>]

Raised(type, loc, msg) == [type |-> type, loc |-> loc, msg |-> msg]

Success(obj) == [ok |-> TRUE, obj |-> obj, err |-> NoError]
Failure(err) == [ok |-> FALSE, obj |-> NoObject, err |-> err]

\* BaseModel.__init__(**kwargs) of a model without validators
BaseModel(fields, kwargs) ==
  LET bad == FieldErrors(fields, kwargs)
  IN IF bad # {} THEN Failure(Raised("ValidationError", bad, <<>>))
     ELSE Success(FieldValues(fields, kwargs))

---------------------------------------------------------------------------
(* base_config.py: the sub-configurations *)

AwsConfigFields ==
  << Required("account", "str"),
     Required("region", "AwsRegion") >>

AwsConfig(kwargs) == BaseModel(AwsConfigFields, kwargs)

VpcConfigFields ==
  << Defaulted("cidr", "str", PyStr(<<"1","0",".","0",".","0",".","0","/","1","6">>)),
     Defaulted("max_azs", "int", PyInt(3)),
     Defaulted("reserved_azs", "int", PyInt(3)),
     Defaulted("nat_gateways", "int", PyInt(1)),
     Defaulted("automatic_subnet_creation", "bool", PyBool(TRUE)) >>

\* A variant of VpcConfig: a model validator rejects max_azs < reserved_azs
VpcConfig_checked(kwargs) ==
  LET fields == BaseModel(VpcConfigFields, kwargs)
  IN IF fields.ok /\ PyLt(fields.obj.max_azs, fields.obj.reserved_azs)
     THEN Failure(Raised("ValidationError", {}, <<"max_azs", "reserved_azs">>))
     ELSE fields

VpcConfig(kwargs) == BaseModel(VpcConfigFields, kwargs)

\* ge=0.5, in quarters
MinCapacityFloor == 2

DatabaseConfigFields ==
  << Defaulted("snapshot_identifier", "Optional[str]", None),
     Defaulted("backup_retention", "int", PyInt(2)),
     Defaulted("instance_reader", "bool", PyBool(FALSE)),
     WithGe(Defaulted("serverless_v2_min_capacity", "float", PyFloat(2)),
            PyFloat(MinCapacityFloor)),
     Defaulted("serverless_v2_max_capacity", "float", PyFloat(8)),
     Defaulted("master_username", "str", PyStr(<<"p","o","s","t","g","r","e","s">>)) >>

\* A variant of validate_capacity: > in place of >=
validate_capacity_gt(self) ==
  IF PyLt(self.serverless_v2_max_capacity, self.serverless_v2_min_capacity)
  THEN Failure(Raised("ValidationError", {},
         << "serverless_v2_min_capacity", self.serverless_v2_min_capacity,
            "serverless_v2_max_capacity", self.serverless_v2_max_capacity >>))
  ELSE Success(self)

\* @model_validator(mode='after')
validate_capacity(self) ==
  IF PyGe(self.serverless_v2_min_capacity, self.serverless_v2_max_capacity)
  THEN Failure(Raised("ValidationError", {},
         << "serverless_v2_min_capacity", self.serverless_v2_min_capacity,
            "serverless_v2_max_capacity", self.serverless_v2_max_capacity >>))
  ELSE Success(self)

\* A variant of DatabaseConfig: validate_capacity runs on the converted
\* values before the fields' bounds are checked
DatabaseConfig_validator_first(kwargs) ==
  LET values == FieldValues(DatabaseConfigFields, kwargs)
      fields == BaseModel(DatabaseConfigFields, kwargs)
  IN IF /\ IsNumber(values.serverless_v2_min_capacity)
        /\ IsNumber(values.serverless_v2_max_capacity)
        /\ ~validate_capacity(values).ok
     THEN validate_capacity(values)
     ELSE IF fields.ok THEN validate_capacity(fields.obj) ELSE fields

DatabaseConfig(kwargs) ==
  LET fields == BaseModel(DatabaseConfigFields, kwargs)
  IN IF fields.ok THEN validate_capacity(fields.obj) ELSE fields

\* A variant of MinAutoScalingFloor: ge=2
MinAutoScalingFloor_two == 1 + 1

\* ge=1
MinAutoScalingFloor == 1

BackendConfigFields ==
  << Defaulted("task_cpu", "str", PyStr(<<"5","0","0","m">>)),
     Defaulted("task_memory", "str", PyStr(<<"5","1","2","M","i">>)),
     Defaulted("desired_count", "int", PyInt(1)),
     WithPattern(
       Defaulted("certificate_arn", "str",
         PyStr(<<"a","r","n",":","a","w","s",":","a","c","m",":","e","u","-","w","e","s","t","-","1",":","5","3","2","6","7","3","1","3","4","3","1","7",":","c","e","r","t","i","f","i","c","a","t","e","/","9","0","5","d","0","d","1","6","-","8","7","e","8","-","4","e","8","9","-","a","8","8","c","-","b","6","0","5","3","f","4","7","2","e","8","1">>)),
       CertificateArnPattern),
     Defaulted("container_env_vars", "Dict[str, str]", PyDict(0)),
     WithGe(Defaulted("auto_scaling_min_capacity", "int", PyInt(1)),
            PyInt(MinAutoScalingFloor)),
     Defaulted("auto_scaling_max_capacity", "int", PyInt(5)),
     Defaulted("ecr_repository_name", "str", PyStr(<<"s","e","r","v","i","c","e","s","/","e","c","s","/","f","a","s","t","a","p","i","_","a","p","p">>)),
     Defaulted("ecr_image_tag", "str", PyStr(<<"l","a","s","t","e","s","t">>)) >>

\* A variant of validate_auto_scaling: the message gives no values
validate_auto_scaling_terse(self) ==
  IF PyGe(self.auto_scaling_min_capacity, self.auto_scaling_max_capacity)
  THEN Failure(Raised("ValidationError", {},
         << "auto_scaling_min_capacity", "auto_scaling_max_capacity" >>))
  ELSE Success(self)

\* A variant of validate_auto_scaling: > in place of >=
validate_auto_scaling_gt(self) ==
  IF PyLt(self.auto_scaling_max_capacity, self.auto_scaling_min_capacity)
  THEN Failure(Raised("ValidationError", {},
         << "auto_scaling_min_capacity", self.auto_scaling_min_capacity,
            "auto_scaling_max_capacity", self.auto_scaling_max_capacity >>))
  ELSE Success(self)

\* @model_validator(mode='after')
validate_auto_scaling(self) ==
  IF PyGe(self.auto_scaling_min_capacity, self.auto_scaling_max_capacity)
  THEN Failure(Raised("ValidationError", {},
         << "auto_scaling_min_capacity", self.auto_scaling_min_capacity,
            "auto_scaling_max_capacity", self.auto_scaling_max_capacity >>))
  ELSE Success(self)

\* A variant of BackendConfig: the model validator is not registered
BackendConfig_unvalidated(kwargs) == BaseModel(BackendConfigFields, kwargs)

BackendConfig(kwargs) ==
  LET fields == BaseModel(BackendConfigFields, kwargs)
  IN IF fields.ok THEN validate_auto_scaling(fields.obj) ELSE fields

\* value.value for a value of a field of the given type: the member's value
\* for an enum field, AttributeError for a str, which has no such attribute
ValueAttribute(type, v) ==
  IF type \in {"AwsRegion", "EnvironmentName"} THEN Success(PyStr(v.s))
  ELSE Failure(Raised("AttributeError", {}, <<"value">>))

\* @property task_cpu_int: return self.task_cpu.value
task_cpu_int(self) ==
  ValueAttribute(FieldNamed(BackendConfigFields, "task_cpu").type, self.task_cpu)

\* @property task_memory_int: return self.task_memory.value
task_memory_int(self) ==
  ValueAttribute(FieldNamed(BackendConfigFields, "task_memory").type,
                 self.task_memory)

FrontendConfigFields ==
  << Defaulted("domain_name", "str", PyStr(<<"d","e","v","-","f","r","o","n","t","e","n","d",".","p","i","e","r","c","u","t","a",".","c","o","m">>)),
     WithPattern(
       Defaulted("certificate_arn", "str",
         PyStr(<<"a","r","n",":","a","w","s",":","a","c","m",":","u","s","-","e","a","s","t","-","1",":","5","3","2","6","7","3","1","3","4","3","1","7",":","c","e","r","t","i","f","i","c","a","t","e","/","0","7","5","5","f","a","6","9","-","6","f","1","8","-","4","5","1","a","-","8","9","8","7","-","d","9","8","c","3","9","5","0","8","9","b","9">>)),
       CertificateArnPattern),
     Defaulted("certificate_provider", "str", PyStr(<<"a","c","m">>)) >>

FrontendConfig(kwargs) == BaseModel(FrontendConfigFields, kwargs)

CICDFronendConfigFields ==
  << WithPattern(
       Defaulted("github_connection_arn", "str",
         PyStr(<<"a","r","n",":","a","w","s",":","c","o","d","e","c","o","n","n","e","c","t","i","o","n","s",":","e","u","-","w","e","s","t","-","1",":","5","3","2","6","7","3","1","3","4","3","1","7",":","c","o","n","n","e","c","t","i","o","n","/","2","a","3","0","a","3","9","5","-","8","d","3","8","-","4","3","a","b","-","8","2","7","b","-","f","3","9","a","8","3","c","9","9","8","6","a">>)),
       ConnectionArnPattern),
     Defaulted("github_owner", "str", PyStr(<<"P","i","e","r","c","u","t","a">>)),
     Defaulted("github_frontend_repo", "str", PyStr(<<"f","u","l","l","-","s","t","a","c","k","-","f","a","s","t","a","p","i","-","f","r","o","n","t">>)),
     Defaulted("github_frontend_branch", "str", PyStr(<<"d","e","v">>)) >>

CICDFronendConfig(kwargs) == BaseModel(CICDFronendConfigFields, kwargs)

CICDBackendConfigFields ==
  << WithPattern(
       Defaulted("github_connection_arn", "str",
         PyStr(<<"a","r","n",":","a","w","s",":","c","o","d","e","c","o","n","n","e","c","t","i","o","n","s",":","e","u","-","w","e","s","t","-","1",":","5","3","2","6","7","3","1","3","4","3","1","7",":","c","o","n","n","e","c","t","i","o","n","/","2","a","3","0","a","3","9","5","-","8","d","3","8","-","4","3","a","b","-","8","2","7","b","-","f","3","9","a","8","3","c","9","9","8","6","a">>)),
       ConnectionArnPattern),
     Defaulted("github_owner", "str", PyStr(<<"P","i","e","r","c","u","t","a">>)),
     Defaulted("github_backend_repo", "str", PyStr(<<"f","u","l","l","-","s","t","a","c","k","-","f","a","s","t","a","p","i","-","b","a","c","k","e","n","d">>)),
     Defaulted("github_backend_branch", "str", PyStr(<<"d","e","v">>)) >>

CICDBackendConfig(kwargs) == BaseModel(CICDBackendConfigFields, kwargs)

DnsConfigFields ==
  << Defaulted("hosted_zone_id", "str", PyStr(<<"Z","0","0","6","8","5","0","6","U","V","3","A","K","4","J","B","K","P","5","9">>)),
     Defaulted("zone_name", "str", PyStr(<<"p","i","e","r","c","u","t","a",".","c","o","m">>)),
     Defaulted("frontend_domain_name", "str", PyStr(<<"d","e","v","-","f","r","o","n","t","e","n","d",".","p","i","e","r","c","u","t","a",".","c","o","m">>)),
     Defaulted("backend_domain_name", "str", PyStr(<<"d","e","v","-","b","a","c","k","e","n","d",".","p","i","e","r","c","u","t","a",".","c","o","m">>)) >>

DnsConfig(kwargs) == BaseModel(DnsConfigFields, kwargs)

---------------------------------------------------------------------------
(* base_config.py: BaseConfig and InfrastructureConfig *)

BaseConfigFields ==
  << Required("env_name", "EnvironmentName"),
     Required("project_name", "str") >>

SubConfigKeys ==
  << "aws", "vpc", "database", "backend", "frontend",
     "cicd_fronend", "cicd_backend", "dns" >>

SubConfigSet == {SubConfigKeys[i] : i \in DOMAIN SubConfigKeys}

\* InfrastructureConfig(**config): env_name and project_name are validated as
\* fields; a sub-configuration passed as an instance of its class is kept.
InfrastructureConfig(kwargs) ==
  LET own == FieldNames(BaseConfigFields)
      scalars == [k \in own \cap DOMAIN kwargs |-> kwargs[k]]
      bad == FieldErrors(BaseConfigFields, scalars) \cup (SubConfigSet \ DOMAIN kwargs)
  IN IF bad # {} THEN Failure(Raised("ValidationError", bad, <<>>))
     ELSE Success([k \in own \cup SubConfigSet |->
                     IF k \in own THEN FieldValues(BaseConfigFields, scalars)[k]
                     ELSE kwargs[k]])

\* A variant of env_name_str: str(self.env_name), the member and not its value
env_name_str_member(self) ==
  <<"E","n","v","i","r","o","n","m","e","n","t","N","a","m","e",".">> \o
    (CASE self.env_name.s = <<"d","e","v">> -> <<"D","E","V">>
       [] self.env_name.s = <<"s","t","a","g","i","n","g">> -> <<"S","T","A","G","I","N","G">>
       [] self.env_name.s = <<"p","r","o","d">> -> <<"P","R","O","D">>)

\* @property env_name_str: self.env_name.value
env_name_str(self) == self.env_name.s

prefix(self, base) ==
  self.project_name.s \o <<"-">> \o env_name_str(self) \o <<"-">> \o base

\* A variant of tags: a fourth tag, Environment
tags_four(self) ==
  [k \in {"EnvName", "ProjectName", "ManagedBy", "Environment"} |->
     IF k = "ProjectName" THEN self.project_name.s
     ELSE IF k = "ManagedBy" THEN <<"C","D","K">>
     ELSE env_name_str(self)]

\* @property tags
tags(self) ==
  [EnvName |-> env_name_str(self),
   ProjectName |-> self.project_name.s,
   ManagedBy |-> <<"C","D","K">>]

region_str(self) == self.region.s

---------------------------------------------------------------------------
(* loader.py *)

\* os.path.dirname(os.path.abspath(__file__))
BasePath == <<"c","d","k","/","c","o","n","f","i","g">>

\* A variant of EnvironmentPath: the environment name is not used
EnvironmentPath_dev(loader) ==
  loader.base_path \o <<"/">> \o <<"e","n","v","i","r","o","n","m","e","n","t","s">> \o <<"/">> \o <<"d","e","v">> \o <<".","y","a","m","l">>

\* os.path.join(self.base_path, 'environments', f'{self.env_name}.yaml')
EnvironmentPath(loader) ==
  loader.base_path \o <<"/">> \o <<"e","n","v","i","r","o","n","m","e","n","t","s">> \o <<"/">> \o loader.env_name \o <<".","y","a","m","l">>

\* os.path.join(self.base_path, 'secrets', f'{self.env_name}.json')
SecretsPath(loader) ==
  loader.base_path \o <<"/">> \o <<"s","e","c","r","e","t","s">> \o <<"/">> \o loader.env_name \o <<".","j","s","o","n">>

NoDocument == [t |-> "unset", top |-> <<>>]
NoLoader == <<>>
NoConfig == <<>>

Abort(err) ==
  /\ pc' = "aborted"
  /\ error' = err

\* app.py 13-16: the context values, 'dev' and 'piercuta' when unset or empty
ResolveContext ==
  /\ pc = "start"
  /\ env_name' = IF context.env.t = "str" /\ context.env.s # <<>>
                 THEN context.env.s ELSE <<"d","e","v">>
  /\ project_name' = IF context.project.t = "str" /\ context.project.s # <<>>
                     THEN context.project.s ELSE <<"p","i","e","r","c","u","t","a">>
  /\ pc' = "config_loader"
  /\ UNCHANGED <<context, fs, config_loader, env_config, built, config, error,
                 reads, stacks, dependencies, synthesized, deployed>>

\* app.py 18, loader.py 11-14: ConfigLoader(env_name, project_name)
NewConfigLoader ==
  /\ pc = "config_loader"
  /\ config_loader' = [env_name |-> env_name, project_name |-> project_name,
                       base_path |-> BasePath]
  /\ pc' = "load_environment_config"
  /\ UNCHANGED <<context, fs, env_name, project_name, env_config, built, config,
                 error, reads, stacks, dependencies, synthesized, deployed>>

\* A variant of safe_load: content that is no YAML loads as the empty document
safe_load_lenient(content) ==
  IF content.t = "malformed" THEN Success([t |-> "none", top |-> <<>>])
  ELSE Success(content)

\* yaml.safe_load(f): the document, or YAMLError when the content is no YAML
safe_load(content) ==
  IF content.t = "malformed" THEN Failure(Raised("YAMLError", {}, <<>>))
  ELSE Success(content)

\* loader.py 22-27: open the secrets file and json.load it. create_config
\* does not call it (the call of line 32 is a comment).
load_secrets(loader) ==
  IF SecretsPath(loader) \notin DOMAIN fs
  THEN Failure(Raised("FileNotFoundError", {}, SecretsPath(loader)))
  ELSE Success(fs[SecretsPath(loader)])

\* A variant of load_environment_config: create_config goes on to call
\* load_secrets
load_environment_config_secrets ==
  /\ pc = "load_environment_config"
  /\ LET config_path == EnvironmentPath(config_loader)
         loaded == safe_load(fs[config_path])
         secrets == load_secrets(config_loader)
     IN IF config_path \notin DOMAIN fs
        THEN /\ reads' = Append(reads, config_path)
             /\ Abort(Raised("FileNotFoundError", {}, config_path))
             /\ UNCHANGED env_config
        ELSE IF ~loaded.ok
        THEN /\ reads' = Append(reads, config_path)
             /\ Abort(loaded.err)
             /\ UNCHANGED env_config
        ELSE /\ reads' = reads \o <<config_path, SecretsPath(config_loader)>>
             /\ IF secrets.ok
                THEN /\ env_config' = loaded.obj
                     /\ pc' = "config_dict"
                     /\ UNCHANGED error
                ELSE /\ Abort(secrets.err)
                     /\ UNCHANGED env_config
  /\ UNCHANGED <<context, fs, env_name, project_name, config_loader, built,
                 config, stacks, dependencies, synthesized, deployed>>

\* loader.py 16-20 and 31: open the environment file and yaml.safe_load it
load_environment_config ==
  /\ pc = "load_environment_config"
  /\ reads' = Append(reads, EnvironmentPath(config_loader))
  /\ LET config_path == EnvironmentPath(config_loader)
     IN IF config_path \notin DOMAIN fs
        THEN /\ Abort(Raised("FileNotFoundError", {}, config_path))
             /\ UNCHANGED env_config
        ELSE LET loaded == safe_load(fs[config_path])
             IN IF ~loaded.ok
                THEN /\ Abort(loaded.err)
                     /\ UNCHANGED env_config
                ELSE /\ env_config' = loaded.obj
                     /\ pc' = "config_dict"
                     /\ UNCHANGED error
  /\ UNCHANGED <<context, fs, env_name, project_name, config_loader, built,
                 config, stacks, dependencies, synthesized, deployed>>

\* A variant of StartConfigDict: the loader's project name is moved into the
\* dictionary, not copied
StartConfigDict_moving ==
  /\ pc = "config_dict"
  /\ built' = [k \in {"env_name", "project_name"} |->
                 IF k = "env_name" THEN PyStr(config_loader.env_name)
                 ELSE PyStr(config_loader.project_name)]
  /\ config_loader' = [config_loader EXCEPT !.project_name = <<>>]
  /\ pc' = "aws"
  /\ UNCHANGED <<context, fs, env_name, project_name, env_config,
                 config, error, reads, stacks, dependencies, synthesized, deployed>>

\* A variant of StartConfigDict: the file's own env_name and project_name are
\* used where it has them
StartConfigDict_from_file ==
  /\ pc = "config_dict"
  /\ built' = [k \in {"env_name", "project_name"} |->
                 IF env_config.t = "map" /\ k \in DOMAIN env_config.top
                 THEN env_config.top[k].kw.value
                 ELSE IF k = "env_name" THEN PyStr(config_loader.env_name)
                 ELSE PyStr(config_loader.project_name)]
  /\ pc' = "aws"
  /\ UNCHANGED <<context, fs, env_name, project_name, config_loader, env_config,
                 config, error, reads, stacks, dependencies, synthesized, deployed>>

\* loader.py 35-37: the first two entries of the dictionary
StartConfigDict ==
  /\ pc = "config_dict"
  /\ built' = [k \in {"env_name", "project_name"} |->
                 IF k = "env_name" THEN PyStr(config_loader.env_name)
                 ELSE PyStr(config_loader.project_name)]
  /\ pc' = "aws"
  /\ UNCHANGED <<context, fs, env_name, project_name, config_loader, env_config,
                 config, error, reads, stacks, dependencies, synthesized, deployed>>

\* What env_config[key] and the ** unpacking of it raise, if anything
SectionError(key) ==
  IF env_config.t # "map" THEN Raised("TypeError", {}, <<>>)
  ELSE IF key \notin DOMAIN env_config.top THEN Raised("KeyError", {key}, <<>>)
  ELSE IF env_config.top[key].t # "map" THEN Raised("TypeError", {key}, <<>>)
  ELSE NoError

\* A variant of BuildEntry: a constructor's error is caught and the entry
\* left out
BuildEntry_recovering(key, result, next) ==
  /\ pc = key
  /\ IF SectionError(key) # NoError
     THEN /\ Abort(SectionError(key))
          /\ UNCHANGED built
     ELSE IF ~result.ok
     THEN /\ pc' = next
          /\ UNCHANGED <<built, error>>
     ELSE /\ built' = [k \in DOMAIN built \cup {key} |->
                         IF k = key THEN result.obj ELSE built[k]]
          /\ pc' = next
          /\ UNCHANGED error
  /\ UNCHANGED <<context, fs, env_name, project_name, config_loader, env_config,
                 config, reads, stacks, dependencies, synthesized, deployed>>

\* A variant of BuildEntry: env_config.get('key') in place of
\* env_config['key'], an absent section leaves its entry out
BuildEntry_optional(key, result, next) ==
  /\ pc = key
  /\ IF env_config.t = "map" /\ key \notin DOMAIN env_config.top
     THEN /\ pc' = next
          /\ UNCHANGED <<built, error>>
     ELSE IF SectionError(key) # NoError
     THEN /\ Abort(SectionError(key))
          /\ UNCHANGED built
     ELSE IF ~result.ok
     THEN /\ Abort(result.err)
          /\ UNCHANGED built
     ELSE /\ built' = [k \in DOMAIN built \cup {key} |->
                         IF k = key THEN result.obj ELSE built[k]]
          /\ pc' = next
          /\ UNCHANGED error
  /\ UNCHANGED <<context, fs, env_name, project_name, config_loader, env_config,
                 config, reads, stacks, dependencies, synthesized, deployed>>

\* One entry 'key':Class(**env_config['key']) of the dictionary; result is
\* Class(env_config['key']) where that call is made.
BuildEntry(key, result, next) ==
  /\ pc = key
  /\ IF SectionError(key) # NoError
     THEN /\ Abort(SectionError(key))
          /\ UNCHANGED built
     ELSE IF ~result.ok
     THEN /\ Abort(result.err)
          /\ UNCHANGED built
     ELSE /\ built' = [k \in DOMAIN built \cup {key} |->
                         IF k = key THEN result.obj ELSE built[k]]
          /\ pc' = next
          /\ UNCHANGED error
  /\ UNCHANGED <<context, fs, env_name, project_name, config_loader, env_config,
                 config, reads, stacks, dependencies, synthesized, deployed>>

Section(key) == env_config.top[key].kw

\* A variant of BuildAws: the 'database' entry is evaluated next, before 'vpc'
BuildAws_then_database == BuildEntry("aws", AwsConfig(Section("aws")), "database")

\* loader.py 38
BuildAws == BuildEntry("aws", AwsConfig(Section("aws")), "vpc")
\* loader.py 39
BuildVpc == BuildEntry("vpc", VpcConfig(Section("vpc")), "database")
\* loader.py 40
BuildDatabase ==
  BuildEntry("database", DatabaseConfig(Section("database")), "backend")
\* loader.py 41
BuildBackend ==
  BuildEntry("backend", BackendConfig(Section("backend")), "frontend")
\* loader.py 42
BuildFrontend ==
  BuildEntry("frontend", FrontendConfig(Section("frontend")), "cicd_fronend")
\* loader.py 43
BuildCICDFronend ==
  BuildEntry("cicd_fronend", CICDFronendConfig(Section("cicd_fronend")), "cicd_backend")
\* loader.py 44
BuildCICDBackend ==
  BuildEntry("cicd_backend", CICDBackendConfig(Section("cicd_backend")), "dns")
\* loader.py 45
BuildDns == BuildEntry("dns", DnsConfig(Section("dns")), "InfrastructureConfig")

\* loader.py 48 and app.py 19: return InfrastructureConfig(**config)
create_config_return ==
  /\ pc = "InfrastructureConfig"
  /\ LET result == InfrastructureConfig(built)
     IN IF result.ok
        THEN /\ config' = result.obj
             /\ pc' = "NetworkStack"
             /\ UNCHANGED error
        ELSE /\ Abort(result.err)
             /\ UNCHANGED config
  /\ UNCHANGED <<context, fs, env_name, project_name, config_loader, env_config,
                 built, reads, stacks, dependencies, synthesized, deployed>>

\* The largest number of create_config calls made on one loader
MaxCalls == 2

\* loader.py 29-31: create_config called once more on the same loader, the
\* caller keeping the aggregate the call before returned
create_config_again ==
  /\ pc = "NetworkStack"
  /\ Len(reads) < MaxCalls
  /\ env_config' = NoDocument
  /\ built' = <<>>
  /\ pc' = "load_environment_config"
  /\ UNCHANGED <<context, fs, env_name, project_name, config_loader, config,
                 error, reads, stacks, dependencies, synthesized, deployed>>

---------------------------------------------------------------------------
(* app.py: the stacks *)

\* The stack classes of src/cdk/stacks that app.py instantiates; the
\* constructor of each ends with self.config.add_stack_global_tags(self)
\* (eks_backend_stack.py 52, cicd_k8S_deploy_stack.py 34).
TaggedStacks == {"EksBackendStack", "CICDK8sDeployStack"}

\* base_config.py 61-64: the tags the stack has once each item of self.tags
\* has been added to it
add_stack_global_tags(self) == [key \in DOMAIN tags(self) |-> tags(self)[key]]

\* A variant of NewStack: the constructor adds its own entry to the
\* aggregate's container_env_vars
NewStack_updating(id, base, inputs, next) ==
  /\ pc = id
  /\ stacks' = Append(stacks,
       [id |-> id, stack_name |-> prefix(config, base),
        account |-> config.aws.account.s, region |-> region_str(config.aws),
        tags |-> IF id \in TaggedStacks THEN add_stack_global_tags(config)
                 ELSE <<>>,
        inputs |-> inputs])
  /\ config' = [config EXCEPT !.backend.container_env_vars = PyDict(@.q + 1)]
  /\ pc' = next
  /\ UNCHANGED <<context, fs, env_name, project_name, config_loader, env_config,
                 built, error, reads, dependencies, synthesized, deployed>>

\* A stack constructor call of app.py: the construct id, the stack_name and env
\* arguments, the stacks whose attributes are passed in, and the tags the
\* constructor adds to the stack.
NewStack(id, base, inputs, next) ==
  /\ pc = id
  /\ stacks' = Append(stacks,
       [id |-> id, stack_name |-> prefix(config, base),
        account |-> config.aws.account.s, region |-> region_str(config.aws),
        tags |-> IF id \in TaggedStacks THEN add_stack_global_tags(config)
                 ELSE <<>>,
        inputs |-> inputs])
  /\ pc' = next
  /\ UNCHANGED <<context, fs, env_name, project_name, config_loader, env_config,
                 built, config, error, reads, dependencies, synthesized, deployed>>

\* app.py 23-32
NetworkStack == NewStack("NetworkStack", <<"n","e","t","w","o","r","k","-","s","t","a","c","k">>, {}, "SecurityStack")
\* A variant of SecurityStack: the database stack's constructor call is
\* moved below the backend stack's, so the backend stack comes next
SecurityStack_then_backend ==
  NewStack("SecurityStack", <<"s","e","c","u","r","i","t","y","-","s","t","a","c","k">>, {"NetworkStack"}, "EksBackendStack")

\* app.py 34-44
SecurityStack ==
  NewStack("SecurityStack", <<"s","e","c","u","r","i","t","y","-","s","t","a","c","k">>, {"NetworkStack"}, "DatabaseStack")
\* app.py 46-60
DatabaseStack ==
  NewStack("DatabaseStack", <<"d","a","t","a","b","a","s","e","-","s","t","a","c","k">>, {"NetworkStack", "SecurityStack"},
           "EksBackendStack")
\* app.py 62-78
EksBackendStack ==
  NewStack("EksBackendStack", <<"e","k","s","-","b","a","c","k","e","n","d","-","s","t","a","c","k">>,
           {"NetworkStack", "SecurityStack", "DatabaseStack"}, "FrontendStack")
\* app.py 80-89
FrontendStack ==
  NewStack("FrontendStack", <<"f","r","o","n","t","e","n","d","-","s","t","a","c","k">>, {}, "CICDK8sDeployStack")
\* app.py 117-127
CICDK8sDeployStack ==
  NewStack("CICDK8sDeployStack", <<"c","i","c","d","-","k","8","s","-","d","e","p","l","o","y","-","s","t","a","c","k">>, {"EksBackendStack"},
           "add_dependency")

\* app.py 146: cicd_k8s_deploy_stack.add_dependency(eks_backend_stack)
add_dependency ==
  /\ pc = "add_dependency"
  /\ dependencies' = dependencies \cup {<<"CICDK8sDeployStack", "EksBackendStack">>}
  /\ pc' = "synth"
  /\ UNCHANGED <<context, fs, env_name, project_name, config_loader, env_config,
                 built, config, error, reads, stacks, synthesized, deployed>>

\* A variant of synth: app.synth() in a finally clause, run after an error too
synth_finally ==
  /\ pc \in {"synth", "aborted"}
  /\ synthesized' = TRUE
  /\ pc' = "done"
  /\ UNCHANGED <<context, fs, env_name, project_name, config_loader, env_config,
                 built, config, error, reads, stacks, dependencies, deployed>>

\* app.py 148: app.synth()
synth ==
  /\ pc = "synth"
  /\ synthesized' = TRUE
  /\ pc' = "done"
  /\ UNCHANGED <<context, fs, env_name, project_name, config_loader, env_config,
                 built, config, error, reads, stacks, dependencies, deployed>>

---------------------------------------------------------------------------
(* cdk_constructs/eks_cluster.py: the resources the EksCluster construct   *)
(* of EksBackendStack defines, and their deployment                        *)

\* The logical ids of the resources, in the order __init__ creates them
EksClusterResources ==
  << "EksClusterRole", "EksNodeRole", "EksCluster", "VpcCniAddon",
     "KubeProxyAddon", "CoreDnsAddon", "PodIdentityAgentAddon",
     "AlbControllerRole", "PodIdentityAssociationAlbController", "AccessEntry2",
     "EksClusterToFastApiIngress", "FastApiToEksClusterIngress" >>

\* The references one resource's properties make to another resource
\* (get_att, role_arn): cluster_name=self.eks_cluster.name and
\* cluster_name=self.cluster_name are the name's text and refer to nothing.
References ==
  { << "EksCluster", "EksClusterRole" >>,
    << "EksCluster", "EksNodeRole" >>,
    << "PodIdentityAssociationAlbController", "AlbControllerRole" >>,
    << "EksClusterToFastApiIngress", "EksCluster" >>,
    << "FastApiToEksClusterIngress", "EksCluster" >> }

\* A variant of DeclaredDependencies: the association declares no dependency
DeclaredDependencies_no_agent ==
  { << "EksCluster", "EksNodeRole" >>,
    << "VpcCniAddon", "EksCluster" >>,
    << "KubeProxyAddon", "EksCluster" >>,
    << "CoreDnsAddon", "EksCluster" >>,
    << "PodIdentityAgentAddon", "EksCluster" >>,
    << "AccessEntry2", "EksCluster" >>,
    << "EksClusterToFastApiIngress", "EksCluster" >>,
    << "FastApiToEksClusterIngress", "EksCluster" >> }

\* The add_dependency calls: <<resource, the resource it depends on>>
DeclaredDependencies ==
  { << "EksCluster", "EksNodeRole" >>,
    << "VpcCniAddon", "EksCluster" >>,
    << "KubeProxyAddon", "EksCluster" >>,
    << "CoreDnsAddon", "EksCluster" >>,
    << "PodIdentityAgentAddon", "EksCluster" >>,
    << "PodIdentityAssociationAlbController", "PodIdentityAgentAddon" >>,
    << "AccessEntry2", "EksCluster" >>,
    << "EksClusterToFastApiIngress", "EksCluster" >>,
    << "FastApiToEksClusterIngress", "EksCluster" >> }

\* The DependsOn of a resource in the synthesized template
DependsOn(resource) ==
  {e[2] : e \in {d \in DeclaredDependencies \cup References : d[1] = resource}}

\* The deployment creates one more resource of the synthesized template, any
\* one whose DependsOn are all created
Deploy ==
  /\ pc = "done"
  /\ synthesized
  /\ \E i \in DOMAIN stacks : stacks[i].id = "EksBackendStack"
  /\ \E i \in DOMAIN EksClusterResources :
       /\ EksClusterResources[i] \notin deployed
       /\ DependsOn(EksClusterResources[i]) \subseteq deployed
       /\ deployed' = deployed \cup {EksClusterResources[i]}
  /\ UNCHANGED <<pc, context, fs, env_name, project_name, config_loader,
                 env_config, built, config, error, reads, stacks, dependencies,
                 synthesized>>

Next ==
  \/ ResolveContext
  \/ NewConfigLoader
  \/ load_environment_config
  \/ StartConfigDict
  \/ BuildAws
  \/ BuildVpc
  \/ BuildDatabase
  \/ BuildBackend
  \/ BuildFrontend
  \/ BuildCICDFronend
  \/ BuildCICDBackend
  \/ BuildDns
  \/ create_config_return
  \/ NetworkStack
  \/ SecurityStack
  \/ DatabaseStack
  \/ EksBackendStack
  \/ FrontendStack
  \/ CICDK8sDeployStack
  \/ add_dependency
  \/ synth

---------------------------------------------------------------------------
(* The inputs the process is started with: the CDK context and the files.  *)

\* At most this many sections of an environment file differ from Example
MaxDeviations == 2
\* The largest capacity supplied to a DatabaseConfig, in quarters of an ACU
MaxCapacity == 10
\* The largest count supplied to a BackendConfig
MaxCount == 6

\* A section with every field supplied, each valid and different from its default
Full(key) ==
  CASE key = "aws" ->
         [account |-> PyStr(<<"1","2","3","4","5","6","7","8","9","0","1","2">>), region |-> PyStr(<<"e","u","-","w","e","s","t","-","3">>)]
    [] key = "vpc" ->
         [cidr |-> PyStr(<<"1","0",".","1",".","0",".","0","/","1","6">>), max_azs |-> PyInt(2), reserved_azs |-> PyInt(2),
          nat_gateways |-> PyInt(2), automatic_subnet_creation |-> PyBool(FALSE)]
    [] key = "database" ->
         [snapshot_identifier |-> PyStr(<<"s","n","a","p","-","1">>), backup_retention |-> PyFloat(28),
          instance_reader |-> PyBool(TRUE), serverless_v2_min_capacity |-> PyInt(1),
          serverless_v2_max_capacity |-> PyFloat(18), master_username |-> PyStr(<<"a","d","m","i","n">>)]
    [] key = "backend" ->
         [task_cpu |-> PyStr(<<"1">>), task_memory |-> PyStr(<<"1","G","i">>), desired_count |-> PyInt(2),
          certificate_arn |-> PyStr(<<"a","r","n",":","a","w","s",":","a","c","m",":","e","u","-","w","e","s","t","-","3",":","1","2","3","4","5","6","7","8","9","0","1","2",":","c","e","r","t","i","f","i","c","a","t","e","/","a","b","-","1">>),
          container_env_vars |-> PyDict(1), auto_scaling_min_capacity |-> PyInt(2),
          auto_scaling_max_capacity |-> PyFloat(16),
          ecr_repository_name |-> PyStr(<<"s","e","r","v","i","c","e","s","/","a","p","i">>), ecr_image_tag |-> PyStr(<<"l","a","t","e","s","t">>)]
    [] key = "frontend" ->
         [domain_name |-> PyStr(<<"a","p","p",".","e","x","a","m","p","l","e",".","c","o","m">>),
          certificate_arn |-> PyStr(<<"a","r","n",":","a","w","s",":","a","c","m",":","u","s","-","e","a","s","t","-","1",":","1","2","3","4","5","6","7","8","9","0","1","2",":","c","e","r","t","i","f","i","c","a","t","e","/","c","d","-","2">>),
          certificate_provider |-> PyStr(<<"i","m","p","o","r","t","e","d">>)]
    [] key = "cicd_fronend" ->
         [github_connection_arn |->
            PyStr(<<"a","r","n",":","a","w","s",":","c","o","d","e","c","o","n","n","e","c","t","i","o","n","s",":","e","u","-","w","e","s","t","-","3",":","1","2","3","4","5","6","7","8","9","0","1","2",":","c","o","n","n","e","c","t","i","o","n","/","e","f","-","3">>),
          github_owner |-> PyStr(<<"m","y","-","o","r","g">>), github_frontend_repo |-> PyStr(<<"f","r","o","n","t","e","n","d">>),
          github_frontend_branch |-> PyStr(<<"m","a","i","n">>)]
    [] key = "cicd_backend" ->
         [github_connection_arn |->
            PyStr(<<"a","r","n",":","a","w","s",":","c","o","d","e","c","o","n","n","e","c","t","i","o","n","s",":","e","u","-","w","e","s","t","-","3",":","1","2","3","4","5","6","7","8","9","0","1","2",":","c","o","n","n","e","c","t","i","o","n","/","g","h","-","4">>),
          github_owner |-> PyStr(<<"m","y","-","o","r","g">>), github_backend_repo |-> PyStr(<<"b","a","c","k","e","n","d">>),
          github_backend_branch |-> PyStr(<<"m","a","i","n">>)]
    [] key = "dns" ->
         [hosted_zone_id |-> PyStr(<<"Z","1","2","3","4","5","6","7","8","9","0">>), zone_name |-> PyStr(<<"e","x","a","m","p","l","e",".","c","o","m">>),
          frontend_domain_name |-> PyStr(<<"a","p","p",".","e","x","a","m","p","l","e",".","c","o","m">>),
          backend_domain_name |-> PyStr(<<"a","p","i",".","e","x","a","m","p","l","e",".","c","o","m">>)]

\* The fields the example file of InfrastructureConfig's docstring supplies
ExampleKeys(key) ==
  CASE key = "aws" -> {"account", "region"}
    [] key = "vpc" -> {"cidr", "max_azs", "nat_gateways"}
    [] key = "database" -> {"backup_retention", "serverless_v2_min_capacity",
                            "serverless_v2_max_capacity"}
    [] key = "backend" -> {"task_cpu", "task_memory", "desired_count",
                           "auto_scaling_min_capacity", "auto_scaling_max_capacity"}
    [] key = "frontend" -> {"domain_name", "certificate_arn"}
    [] key = "cicd_fronend" -> {"github_owner", "github_frontend_repo",
                                "github_frontend_branch"}
    [] key = "cicd_backend" -> {"github_owner", "github_backend_repo",
                                "github_backend_branch"}
    [] key = "dns" -> {"hosted_zone_id", "zone_name"}

Supplying(key, names) == [n \in names |-> Full(key)[n]]

Mapping(kw) == [t |-> "map", kw |-> kw]

\* A section its constructor rejects
Invalid(key) ==
  CASE key = "aws" -> [account |-> PyStr(<<"1","2","3","4","5","6","7","8","9","0","1","2">>), region |-> PyStr(<<"m","a","r","s","-","1">>)]
    [] key = "vpc" -> [max_azs |-> None]
    [] key = "database" -> [serverless_v2_min_capacity |-> PyFloat(8),
                            serverless_v2_max_capacity |-> PyFloat(4)]
    [] key = "backend" -> [auto_scaling_min_capacity |-> PyInt(5)]
    [] key = "frontend" -> [certificate_arn |-> PyStr(<<"a","r","n",":","a","w","s",":","a","c","m",":",".",".",".">>)]
    [] key = "cicd_fronend" -> [github_connection_arn |-> PyStr(<<>>)]
    [] key = "cicd_backend" -> [github_connection_arn |-> PyInt(1)]
    [] key = "dns" -> [zone_name |-> PyInt(1)]

\* How a section may differ from the example: 1 the key is absent from the
\* file, 2 its constructor rejects it, 3 it is the empty mapping
Deviations == 1..3

ExampleDocument ==
  [t |-> "map",
   top |-> [k \in SubConfigSet |-> Mapping(Supplying(k, ExampleKeys(k)))]]

Deviating(changed, how) ==
  [t |-> "map",
   top |-> [k \in {x \in SubConfigSet : ~(x \in changed /\ how[x] = 1)} |->
              IF k \notin changed THEN Mapping(Supplying(k, ExampleKeys(k)))
              ELSE IF how[k] = 2 THEN Mapping(Invalid(k))
              ELSE Mapping(<<>>)]]

\* Content that is no YAML, the empty document, and a document that is a list
OtherDocuments ==
  {[t |-> "malformed", top |-> <<>>], [t |-> "none", top |-> <<>>],
   [t |-> "list", top |-> <<>>]}

Documents ==
  OtherDocuments \cup
  UNION {{Deviating(changed, how) : how \in [changed -> Deviations]} :
           changed \in {c \in SUBSET SubConfigSet : Cardinality(c) <= MaxDeviations}}

Contexts ==
  [env : {None, PyStr(<<>>), PyStr(<<"p","r","o","d">>), PyStr(<<"q","a">>)},
   project : {None, PyStr(<<"a","c","m","e">>)}]

ExistingEnvironments == {{}, {<<"d","e","v">>}, {<<"d","e","v">>, <<"p","r","o","d">>, <<"q","a">>}}

\* The place of an environment's file
PathOf(env) == <<"c","d","k","/","c","o","n","f","i","g","/","e","n","v","i","r","o","n","m","e","n","t","s","/">> \o env \o <<".","y","a","m","l">>

Files(envs, document) == [p \in {PathOf(e) : e \in envs} |-> document]

\* The place of an environment's secrets
SecretsPathOf(env) == <<"c","d","k","/","c","o","n","f","i","g","/","s","e","c","r","e","t","s","/">> \o env \o <<".","j","s","o","n">>

\* A secrets file for each of the environments
SecretFiles(envs) ==
  [p \in {SecretsPathOf(e) : e \in envs} |-> [t |-> "map", top |-> <<>>]]

\* The state of the process as app.py starts
Started(ctx, files) ==
  /\ pc = "start"
  /\ context = ctx
  /\ fs = files
  /\ env_name = <<>>
  /\ project_name = <<>>
  /\ config_loader = NoLoader
  /\ env_config = NoDocument
  /\ built = <<>>
  /\ config = NoConfig
  /\ error = NoError
  /\ reads = <<>>
  /\ stacks = <<>>
  /\ dependencies = {}
  /\ synthesized = FALSE
  /\ deployed = {}

Init ==
  \E ctx \in Contexts, envs \in ExistingEnvironments, document \in Documents :
    \E secrets \in {{}, envs} :
      Started(ctx, Files(envs, document) @@ SecretFiles(secrets))

Spec == Init /\ [][Next]_vars

\* The example file with one section replaced
ExampleWith(key, kw) ==
  [ExampleDocument EXCEPT !.top[key] = Mapping(kw)]

DefaultContext == [env |-> None, project |-> None]

\* Some or all of the named fields, each with a value of the set
Choices(names, values) == UNION {[s -> values] : s \in SUBSET names}

CapacityInputs ==
  {PyFloat(q) : q \in -1..MaxCapacity} \cup {PyInt(n) : n \in 0..(MaxCapacity \div 4)}
    \cup {NaN, Inf, NegInf, None}

\* Every database section over the capacity inputs
InitDatabase ==
  \E kw \in Choices({"serverless_v2_min_capacity", "serverless_v2_max_capacity"},
                    CapacityInputs) :
    Started(DefaultContext, Files({<<"d","e","v">>}, ExampleWith("database", kw)))

SpecDatabase == InitDatabase /\ [][Next]_vars

CountInputs ==
  {PyInt(n) : n \in -1..MaxCount} \cup {PyFloat(q) : q \in 7..9} \cup {NaN, None}

\* Every backend section over the count inputs
InitBackend ==
  \E kw \in Choices({"auto_scaling_min_capacity", "auto_scaling_max_capacity"},
                    CountInputs) :
    Started(DefaultContext, Files({<<"d","e","v">>}, ExampleWith("backend", kw)))

SpecBackend == InitBackend /\ [][Next]_vars

ArnText(partition, service, region, account, kind, id, tail) ==
  <<"a","r","n",":">> \o partition \o <<":">> \o service \o <<":">> \o region \o <<":">>
    \o account \o <<":">> \o kind \o <<"/">> \o id \o tail

ArnInputs ==
  {PyStr(ArnText(partition, service, region, account, kind, id, tail)) :
     partition \in {<<"a","w","s">>, <<"a","w","s","-","c","n">>},
     service \in {<<"a","c","m">>, <<"c","o","d","e","c","o","n","n","e","c","t","i","o","n","s">>, <<"s","3">>},
     region \in {<<"e","u","-","w","e","s","t","-","1">>, <<"u","s","-","g","o","v","-","w","e","s","t","-","1">>, <<"E","U","-","W","E","S","T","-","1">>, <<>>},
     account \in {<<"5","3","2","6","7","3","1","3","4","3","1","7">>, <<"5","3","2","6","7","3","1","3","4","3","1">>, <<"5","3","2","6","7","3","1","3","4","3","1","7","0">>, <<"5","3","2","6","7","3","1","3","4","3","1","x">>},
     kind \in {<<"c","e","r","t","i","f","i","c","a","t","e">>, <<"c","o","n","n","e","c","t","i","o","n">>},
     id \in {<<"9","0","5","d","0","d","1","6","-","A","b">>, <<"0">>, <<>>, <<"a","_","b">>, <<"a","/","b">>},
     tail \in {<<>>, <<"\n">>}}
  \cup {PyStr(<<>>), PyStr(<<"a","r","n",":","a","w","s",":","a","c","m">>), PyInt(1)}

ArnFields ==
  {<<"backend", "certificate_arn">>, <<"frontend", "certificate_arn">>,
   <<"cicd_fronend", "github_connection_arn">>,
   <<"cicd_backend", "github_connection_arn">>}

\* One ARN-bearing field supplied with each ARN input
InitArn ==
  \E f \in ArnFields, arn \in ArnInputs :
    Started(DefaultContext,
            Files({<<"d","e","v">>}, ExampleWith(f[1], [n \in {f[2]} |-> arn])))

SpecArn == InitArn /\ [][Next]_vars

\* One section supplying any subset of its fields
InitMerge ==
  \E key \in SubConfigSet :
    \E names \in SUBSET DOMAIN Full(key) :
      Started(DefaultContext,
              Files({<<"d","e","v">>}, ExampleWith(key, Supplying(key, names))))

SpecMerge == InitMerge /\ [][Next]_vars

---------------------------------------------------------------------------
(* What the properties below read off a state *)

\* The schema of each section of the aggregate
SchemaOf(key) ==
  CASE key = "aws" -> AwsConfigFields
    [] key = "vpc" -> VpcConfigFields
    [] key = "database" -> DatabaseConfigFields
    [] key = "backend" -> BackendConfigFields
    [] key = "frontend" -> FrontendConfigFields
    [] key = "cicd_fronend" -> CICDFronendConfigFields
    [] key = "cicd_backend" -> CICDBackendConfigFields
    [] key = "dns" -> DnsConfigFields

\* The environment the invocation asks for
RequestedEnvironment ==
  IF context.env.t = "str" /\ context.env.s # <<>> THEN context.env.s ELSE <<"d","e","v">>

RequestedPath == PathOf(RequestedEnvironment)

FileExists == RequestedPath \in DOMAIN fs

\* What the environment file gives for a section
Supplied(key) == fs[RequestedPath].top[key].kw

\* The value a constructor is given for a field: the file's, else the default
Given(key, name) ==
  IF name \in DOMAIN Supplied(key) THEN Supplied(key)[name]
  ELSE FieldNamed(SchemaOf(key), name).default

Preceding(key) ==
  CASE key = "aws" -> "project_name"
    [] key = "vpc" -> "aws"
    [] key = "database" -> "vpc"
    [] key = "backend" -> "database"
    [] key = "frontend" -> "backend"
    [] key = "cicd_fronend" -> "frontend"
    [] key = "cicd_backend" -> "cicd_fronend"
    [] key = "dns" -> "cicd_backend"

\* The sub-configuration of a section exists
Constructed(key) == key \in DOMAIN built

\* The constructor of a section was called and raised
Rejected(key) ==
  /\ pc = "aborted"
  /\ Preceding(key) \in DOMAIN built
  /\ key \notin DOMAIN built

\* The constructor of a section has been called
Attempted(key) == Constructed(key) \/ Rejected(key)

NoAggregate == DOMAIN config = {}

NoSubConfig == DOMAIN built \cap SubConfigSet = {}

Half == PyFloat(2)
One == PyInt(1)

---------------------------------------------------------------------------
(* C1: a DatabaseConfig input whose minimum capacity is greater than or    *)
(* equal to its maximum capacity is rejected with a validation error, and  *)
(* no DatabaseConfig (nor aggregate) exists afterwards.                    *)

DatabaseInverted ==
  LET min == Given("database", "serverless_v2_min_capacity")
      max == Given("database", "serverless_v2_max_capacity")
  IN IsNumber(min) /\ IsNumber(max) /\ PyGe(min, max)

C1_InvertedCapacityRejected ==
  DatabaseInverted =>
    /\ ~Constructed("database")
    /\ NoAggregate
    /\ Attempted("database") => error.type = "ValidationError"

\* equal capacities of at least 0.5, rejected by the cross-field check
C1_Witness ==
  /\ Rejected("database")
  /\ error.type = "ValidationError"
  /\ error.loc = {}
  /\ PyEq(Given("database", "serverless_v2_min_capacity"),
          Given("database", "serverless_v2_max_capacity"))
  /\ "serverless_v2_max_capacity" \in DOMAIN Supplied("database")

---------------------------------------------------------------------------
(* C2: a DatabaseConfig input with 0.5 <= min capacity < max capacity is   *)
(* accepted, and the object holds the supplied min and max capacity.       *)

DatabaseOrdered ==
  LET min == Given("database", "serverless_v2_min_capacity")
      max == Given("database", "serverless_v2_max_capacity")
  IN IsNumber(min) /\ IsNumber(max) /\ PyLt(min, max) /\ PyGe(min, Half)

C2_OrderedCapacityAccepted ==
  DatabaseOrdered =>
    /\ ~Rejected("database")
    /\ Constructed("database") =>
         /\ PyEq(built.database.serverless_v2_min_capacity,
                 Given("database", "serverless_v2_min_capacity"))
         /\ PyEq(built.database.serverless_v2_max_capacity,
                 Given("database", "serverless_v2_max_capacity"))

\* both capacities supplied, the minimum exactly 0.5
C2_Witness ==
  /\ Constructed("database")
  /\ DOMAIN Supplied("database") =
       {"serverless_v2_min_capacity", "serverless_v2_max_capacity"}
  /\ Supplied("database").serverless_v2_min_capacity = Half
  /\ Supplied("database").serverless_v2_max_capacity.t = "int"

---------------------------------------------------------------------------
(* C3: a BackendConfig input whose auto-scaling minimum is greater than or *)
(* equal to its maximum is rejected with a validation error, and no        *)
(* BackendConfig (nor aggregate) exists afterwards.                        *)

BackendInverted ==
  LET min == Given("backend", "auto_scaling_min_capacity")
      max == Given("backend", "auto_scaling_max_capacity")
  IN IsNumber(min) /\ IsNumber(max) /\ PyGe(min, max)

C3_InvertedAutoScalingRejected ==
  BackendInverted =>
    /\ ~Constructed("backend")
    /\ NoAggregate
    /\ Attempted("backend") => error.type = "ValidationError"

\* equal counts of at least 1, rejected by the cross-field check
C3_Witness ==
  /\ Rejected("backend")
  /\ error.type = "ValidationError"
  /\ error.loc = {}
  /\ PyEq(Given("backend", "auto_scaling_min_capacity"),
          Given("backend", "auto_scaling_max_capacity"))
  /\ "auto_scaling_min_capacity" \in DOMAIN Supplied("backend")

---------------------------------------------------------------------------
(* C4, as claimed: every BackendConfig input with auto-scaling min < max   *)
(* is accepted.                                                            *)

BackendIntegers ==
  /\ Given("backend", "auto_scaling_min_capacity").t = "int"
  /\ Given("backend", "auto_scaling_max_capacity").t = "int"

C4_Original_OrderedAccepted ==
  (BackendIntegers /\ PyLt(Given("backend", "auto_scaling_min_capacity"),
                           Given("backend", "auto_scaling_max_capacity")))
    => ~Rejected("backend")

(* C4, amended: a BackendConfig input with integer auto-scaling counts is  *)
(* accepted when 1 <= min < max, and rejected otherwise: the only integer  *)
(* capacity inputs rejected are those with min < 1 or min >= max.          *)
C4_OrderedFromOneAccepted ==
  LET min == Given("backend", "auto_scaling_min_capacity")
      max == Given("backend", "auto_scaling_max_capacity")
  IN BackendIntegers =>
       IF PyGe(min, One) /\ PyLt(min, max)
       THEN ~Rejected("backend")
       ELSE ~Constructed("backend")

\* the smallest accepted minimum, supplied
C4_Witness ==
  /\ Constructed("backend")
  /\ "auto_scaling_min_capacity" \in DOMAIN Supplied("backend")
  /\ Supplied("backend").auto_scaling_min_capacity = One
  /\ "auto_scaling_max_capacity" \in DOMAIN Supplied("backend")

---------------------------------------------------------------------------
(* C5: every DatabaseConfig that exists, on its own or inside the          *)
(* aggregate, has min capacity >= 0.5 and min capacity < max capacity.     *)

DatabaseInvariant(database) ==
  /\ PyGe(database.serverless_v2_min_capacity, Half)
  /\ PyLt(database.serverless_v2_min_capacity, database.serverless_v2_max_capacity)

C5_DatabaseInvariantHolds ==
  /\ Constructed("database") => DatabaseInvariant(built.database)
  /\ ~NoAggregate => DatabaseInvariant(config.database)

---------------------------------------------------------------------------
(* C6: every BackendConfig that exists, on its own or inside the           *)
(* aggregate, has auto-scaling min >= 1 and min < max; an input whose      *)
(* minimum is below 1 is rejected whatever its maximum.                    *)

BackendInvariant(backend) ==
  /\ backend.auto_scaling_min_capacity.t = "int"
  /\ backend.auto_scaling_max_capacity.t = "int"
  /\ PyGe(backend.auto_scaling_min_capacity, One)
  /\ PyLt(backend.auto_scaling_min_capacity, backend.auto_scaling_max_capacity)

C6_BackendInvariantHolds ==
  /\ Constructed("backend") => BackendInvariant(built.backend)
  /\ ~NoAggregate => BackendInvariant(config.backend)
  /\ LET min == Given("backend", "auto_scaling_min_capacity")
     IN (IsNumber(min) /\ PyLt(min, One)) => ~Constructed("backend")

\* an aggregate whose backend was given both counts
C6_Witness ==
  /\ ~NoAggregate
  /\ {"auto_scaling_min_capacity", "auto_scaling_max_capacity"}
       \subseteq DOMAIN Supplied("backend")

---------------------------------------------------------------------------
(* C7: each ARN-bearing field rejects a string that has not the shape      *)
(* arn:aws:<service>:<region>:<12-digit account>:<resource kind>/<id> of   *)
(* its field, and accepts a string that has it.                            *)

RECURSIVE SplitOn(_, _)
SplitOn(text, sep) ==
  IF \A i \in 1..Len(text) : text[i] # sep THEN << text >>
  ELSE LET i == CHOOSE j \in 1..Len(text) :
                  text[j] = sep /\ \A h \in 1..(j - 1) : text[h] # sep
       IN << SubSeq(text, 1, i - 1) >> \o SplitOn(SubSeq(text, i + 1, Len(text)), sep)

Within(text, set) == \A i \in 1..Len(text) : text[i] \in set

HasArnShape(text, service, kind) ==
  LET part == SplitOn(text, ":")
  IN /\ Len(part) = 6
     /\ part[1] = <<"a","r","n">>
     /\ part[2] = <<"a","w","s">>
     /\ part[3] = service
     /\ part[4] # <<>> /\ Within(part[4], Lower \cup Digit \cup {"-"})
     /\ Len(part[5]) = 12 /\ Within(part[5], Digit)
     /\ LET resource == SplitOn(part[6], "/")
        IN /\ Len(resource) = 2
           /\ resource[1] = kind
           /\ resource[2] # <<>>
           /\ Within(resource[2], Lower \cup Upper \cup Digit \cup {"-"})

ServiceOf(key) ==
  IF key \in {"backend", "frontend"} THEN <<"a","c","m">> ELSE <<"c","o","d","e","c","o","n","n","e","c","t","i","o","n","s">>

KindOf(key) ==
  IF key \in {"backend", "frontend"} THEN <<"c","e","r","t","i","f","i","c","a","t","e">> ELSE <<"c","o","n","n","e","c","t","i","o","n">>

C7_ArnShapeDecides ==
  \A f \in ArnFields :
    (f[2] \in DOMAIN Supplied(f[1]) /\ Supplied(f[1])[f[2]].t = "str") =>
      IF HasArnShape(Supplied(f[1])[f[2]].s, ServiceOf(f[1]), KindOf(f[1]))
      THEN ~Rejected(f[1])
      ELSE ~Constructed(f[1])

\* a connection ARN of another region than the default's, accepted
C7_Witness ==
  /\ Constructed("cicd_backend")
  /\ "github_connection_arn" \in DOMAIN Supplied("cicd_backend")
  /\ built.cicd_backend.github_connection_arn.s =
       <<"a","r","n",":","a","w","s",":","c","o","d","e","c","o","n","n","e","c","t","i","o","n","s",":","u","s","-","g","o","v","-","w","e","s","t","-","1",":","5","3","2","6","7","3","1","3","4","3","1","7",":","c","o","n","n","e","c","t","i","o","n","/","0">>

---------------------------------------------------------------------------
(* C8: when the environment file of the requested environment does not     *)
(* exist, create_config fails with a file-not-found error; no              *)
(* sub-configuration and no aggregate is constructed.                      *)

Loaded == pc \notin {"start", "config_loader", "load_environment_config"}

C8_MissingFileAborts ==
  (~FileExists /\ Loaded) =>
    /\ pc = "aborted"
    /\ error.type = "FileNotFoundError"
    /\ NoSubConfig
    /\ NoAggregate
    /\ stacks = <<>>

\* the requested file is missing while files of other environments exist
C8_Witness ==
  /\ pc = "aborted"
  /\ error.type = "FileNotFoundError"
  /\ ~FileExists
  /\ DOMAIN fs # {}

---------------------------------------------------------------------------
(* C9: when the environment file exists and its content is not valid YAML, *)
(* create_config fails with a parse error and returns no aggregate.        *)

C9_MalformedFileAborts ==
  (FileExists /\ Loaded) =>
    (fs[RequestedPath].t = "malformed" =>
       /\ pc = "aborted"
       /\ error.type = "YAMLError"
       /\ NoSubConfig
       /\ NoAggregate)

C9_Witness ==
  /\ pc = "aborted"
  /\ error.type = "YAMLError"
  /\ reads = << RequestedPath >>

---------------------------------------------------------------------------
(* C10: in the aggregate create_config returns, every field of every       *)
(* sub-configuration has the file's value when the file's section supplies *)
(* that field, and the field's schema default when it does not, whatever   *)
(* else the section supplies.                                              *)

C10_FieldLevelDefaults ==
  ~NoAggregate =>
    \A key \in SubConfigSet :
      /\ DOMAIN config[key] = FieldNames(SchemaOf(key))
      /\ \A name \in FieldNames(SchemaOf(key)) :
           IF name \in DOMAIN Supplied(key)
           THEN PyEq(config[key][name], Supplied(key)[name])
           ELSE config[key][name] = FieldNamed(SchemaOf(key), name).default

\* a section that supplies one field only, and not its first
C10_Witness ==
  /\ pc = "done"
  /\ DOMAIN Supplied("backend") = {"auto_scaling_max_capacity"}
  /\ config.backend.auto_scaling_max_capacity = PyInt(4)
  /\ config.backend.auto_scaling_min_capacity = PyInt(1)

---------------------------------------------------------------------------
(* C11: a validation failure raised by a sub-configuration's constructor   *)
(* inside create_config reaches the caller as that same error: the process *)
(* ends with exactly the error the constructor raises for the file's       *)
(* section, no default takes the section's place, and no aggregate is      *)
(* returned.                                                               *)

\* The constructor loader.py calls for a section
ClassOf(key, kwargs) ==
  CASE key = "aws" -> AwsConfig(kwargs)
    [] key = "vpc" -> VpcConfig(kwargs)
    [] key = "database" -> DatabaseConfig(kwargs)
    [] key = "backend" -> BackendConfig(kwargs)
    [] key = "frontend" -> FrontendConfig(kwargs)
    [] key = "cicd_fronend" -> CICDFronendConfig(kwargs)
    [] key = "cicd_backend" -> CICDBackendConfig(kwargs)
    [] key = "dns" -> DnsConfig(kwargs)

\* The file has a section for the key
InFile(key) == FileExists /\ key \in DOMAIN fs[RequestedPath].top

\* The entry of a section has been evaluated, all entries before it built
Passed(key) == Preceding(key) \in DOMAIN built /\ pc # key

C11_ValidationErrorPropagates ==
  \A key \in SubConfigSet :
    (Passed(key) /\ InFile(key)) =>
      (~ClassOf(key, Supplied(key)).ok =>
         /\ pc = "aborted"
         /\ error = ClassOf(key, Supplied(key)).err
         /\ error.type = "ValidationError"
         /\ ~Constructed(key)
         /\ NoAggregate)

\* the database constructor's cross-field error ended the run, after the
\* sections before it were built
C11_Witness ==
  /\ Rejected("database")
  /\ InFile("database")
  /\ Constructed("vpc")
  /\ error.type = "ValidationError"
  /\ error.loc = {}
  /\ error = DatabaseConfig(Supplied("database")).err

---------------------------------------------------------------------------
(* C12: every sub-configuration and every aggregate that exists is fully   *)
(* valid: each of its fields has a value of the field's type that meets    *)
(* the field's lower bound and pattern, and the record meets its           *)
(* cross-field constraint (minimum below maximum).                         *)

FieldConstraintsHold(key, obj) ==
  /\ DOMAIN obj = FieldNames(SchemaOf(key))
  /\ \A name \in FieldNames(SchemaOf(key)) :
       LET f == FieldNamed(SchemaOf(key), name)
       IN /\ f.has_ge => PyGe(obj[name], f.ge)
          /\ f.has_pattern => (obj[name].t = "str" /\ Matches(f.pattern, obj[name].s))

CrossFieldConstraintHolds(key, obj) ==
  /\ key = "database" =>
       PyLt(obj.serverless_v2_min_capacity, obj.serverless_v2_max_capacity)
  /\ key = "backend" =>
       PyLt(obj.auto_scaling_min_capacity, obj.auto_scaling_max_capacity)

C12_NoInvalidObject ==
  \A key \in SubConfigSet :
    /\ Constructed(key) =>
         /\ FieldConstraintsHold(key, built[key])
         /\ CrossFieldConstraintHolds(key, built[key])
    /\ ~NoAggregate =>
         /\ FieldConstraintsHold(key, config[key])
         /\ CrossFieldConstraintHolds(key, config[key])
         /\ config.env_name.s \in EnvironmentName

---------------------------------------------------------------------------
(* C13: the error of each cross-field check, the database capacities and   *)
(* the backend auto-scaling counts, names in its message the two fields    *)
(* compared and gives the minimum and the maximum of the rejected input.   *)

\* Every database section and every backend section over their inputs
InitCrossField == InitDatabase \/ InitBackend

SpecCrossField == InitCrossField /\ [][Next]_vars

\* The run ended in the model validator of a section's constructor
CrossFieldError(key) ==
  /\ Rejected(key)
  /\ error.type = "ValidationError"
  /\ error.loc = {}

MessageGives(msg, key, min_name, max_name) ==
  /\ Len(msg) = 4
  /\ msg[1] = min_name
  /\ PyEq(msg[2], Given(key, min_name))
  /\ msg[3] = max_name
  /\ PyEq(msg[4], Given(key, max_name))

C13_CrossFieldMessage ==
  /\ CrossFieldError("database") =>
       MessageGives(error.msg, "database", "serverless_v2_min_capacity",
                    "serverless_v2_max_capacity")
  /\ CrossFieldError("backend") =>
       MessageGives(error.msg, "backend", "auto_scaling_min_capacity",
                    "auto_scaling_max_capacity")

\* a backend whose supplied counts are equal
C13_Witness ==
  /\ CrossFieldError("backend")
  /\ {"auto_scaling_min_capacity", "auto_scaling_max_capacity"}
       \subseteq DOMAIN Supplied("backend")
  /\ error.msg[2] = PyInt(3)
  /\ error.msg[4] = PyInt(3)

\* a database whose supplied minimum is not below the default maximum
C13_WitnessDatabase ==
  /\ CrossFieldError("database")
  /\ DOMAIN Supplied("database") = {"serverless_v2_min_capacity"}
  /\ error.msg[2] = PyFloat(8)

---------------------------------------------------------------------------
(* C14: create_config is deterministic and idempotent: a second call on    *)
(* the same loader, with the same files, returns an aggregate equal to the *)
(* first one and does not fail, and no step of a call changes the loader's *)
(* env_name, project_name or base_path.                                    *)

\* The process of app.py, or a caller that calls create_config again
NextTwice == Next \/ create_config_again

SpecTwice == Init /\ [][NextTwice]_vars

C14_Idempotent ==
  [][/\ DOMAIN config_loader # {} => config_loader' = config_loader
     /\ ~NoAggregate => pc' # "aborted"
     /\ (~NoAggregate /\ pc = "InfrastructureConfig") =>
          (pc' = "NetworkStack" /\ config' = config)]_vars

\* the second call has returned, for a file that leaves fields to defaults
C14_Witness ==
  /\ Len(reads) = 2
  /\ reads[1] = reads[2]
  /\ pc = "NetworkStack"
  /\ ~NoAggregate
  /\ DOMAIN built = DOMAIN config
  /\ \A key \in DOMAIN built : built[key] = config[key]

---------------------------------------------------------------------------
(* C15: prefix(base) is the project name, '-', the environment's string    *)
(* value, '-' and base: every stack is named so from the project and the   *)
(* environment the process was started for, and project 'acme' in 'dev'    *)
(* gives 'acme-dev-network-stack'.                                         *)

\* The base string app.py passes to config.prefix for each stack
BaseOf(id) ==
  CASE id = "NetworkStack" -> <<"n","e","t","w","o","r","k","-","s","t","a","c","k">>
    [] id = "SecurityStack" -> <<"s","e","c","u","r","i","t","y","-","s","t","a","c","k">>
    [] id = "DatabaseStack" -> <<"d","a","t","a","b","a","s","e","-","s","t","a","c","k">>
    [] id = "EksBackendStack" -> <<"e","k","s","-","b","a","c","k","e","n","d","-","s","t","a","c","k">>
    [] id = "FrontendStack" -> <<"f","r","o","n","t","e","n","d","-","s","t","a","c","k">>
    [] id = "CICDK8sDeployStack" -> <<"c","i","c","d","-","k","8","s","-","d","e","p","l","o","y","-","s","t","a","c","k">>

C15_PrefixFormat ==
  /\ \A i \in DOMAIN stacks :
       /\ env_name \in EnvironmentName
       /\ stacks[i].stack_name =
            project_name \o <<"-">> \o env_name \o <<"-">> \o BaseOf(stacks[i].id)
  /\ (stacks # <<>> /\ project_name = <<"a","c","m","e">> /\ env_name = <<"d","e","v">>) =>
       stacks[1].stack_name = <<"a","c","m","e","-","d","e","v","-","n","e","t","w","o","r","k","-","s","t","a","c","k">>

\* the network stack of project 'acme' in 'dev' has been named
C15_Witness ==
  /\ stacks # <<>>
  /\ stacks[1].id = "NetworkStack"
  /\ stacks[1].stack_name = <<"a","c","m","e","-","d","e","v","-","n","e","t","w","o","r","k","-","s","t","a","c","k">>

---------------------------------------------------------------------------
(* C16: tags is a mapping with exactly the keys EnvName, ProjectName and   *)
(* ManagedBy, whose values are the environment's string value, the project *)
(* name and 'CDK'; a stack that adds the global tags gets exactly these.   *)

StandardTags(t) ==
  /\ DOMAIN t = {"EnvName", "ProjectName", "ManagedBy"}
  /\ t["EnvName"] = env_name
  /\ t["ProjectName"] = project_name
  /\ t["ManagedBy"] = <<"C","D","K">>

C16_TagsExact ==
  /\ ~NoAggregate => (env_name \in EnvironmentName /\ StandardTags(tags(config)))
  /\ \A i \in DOMAIN stacks :
       stacks[i].id \in TaggedStacks => StandardTags(stacks[i].tags)

\* the tagged backend stack of project 'acme' in 'prod'
C16_Witness ==
  /\ \E i \in DOMAIN stacks :
       /\ stacks[i].id = "EksBackendStack"
       /\ stacks[i].tags["EnvName"] = <<"p","r","o","d">>
       /\ stacks[i].tags["ProjectName"] = <<"a","c","m","e">>
       /\ stacks[i].tags["ManagedBy"] = <<"C","D","K">>

---------------------------------------------------------------------------
(* C17: a run of create_config opens exactly one file, the environment     *)
(* file environments/<env_name>.yaml, whether it then succeeds or fails;   *)
(* the secrets file secrets/<env_name>.json is never opened, load_secrets  *)
(* never being called.                                                     *)

C17_OnlyEnvironmentFileRead ==
  /\ Loaded => reads = << RequestedPath >>
  /\ ~Loaded => reads = <<>>
  /\ \A i \in DOMAIN reads : reads[i] # SecretsPathOf(RequestedEnvironment)

\* create_config has returned and the stacks are synthesized, a secrets file
\* of the environment being there
C17_Witness ==
  /\ pc = "done"
  /\ ~NoAggregate
  /\ SecretsPathOf(RequestedEnvironment) \in DOMAIN fs
  /\ reads = << RequestedPath >>

\* create_config has failed in a constructor, a secrets file being there
C17_WitnessFailed ==
  /\ pc = "aborted"
  /\ error.type = "ValidationError"
  /\ SecretsPathOf(RequestedEnvironment) \in DOMAIN fs
  /\ reads = << RequestedPath >>

---------------------------------------------------------------------------
(* C18: no stack is created, no dependency declared and app.synth() not    *)
(* run unless create_config has returned an aggregate; when the file is    *)
(* missing or malformed, or any validation fails, the process aborts with  *)
(* no stack, and app.synth() never runs.                                   *)

\* The files and the context are such that create_config cannot succeed
InputFails ==
  \/ ~FileExists
  \/ FileExists /\ fs[RequestedPath].t # "map"
  \/ /\ FileExists
     /\ fs[RequestedPath].t = "map"
     /\ \/ RequestedEnvironment \notin EnvironmentName
        \/ \E key \in SubConfigSet :
             \/ ~InFile(key)
             \/ InFile(key) /\ ~ClassOf(key, Supplied(key)).ok

C18_NoStackWithoutAggregate ==
  /\ NoAggregate => (stacks = <<>> /\ dependencies = {} /\ ~synthesized)
  /\ pc = "aborted" => NoAggregate
  /\ InputFails => (NoAggregate /\ pc # "done")
  /\ (InputFails /\ pc \notin {"start", "config_loader", "load_environment_config",
                              "config_dict", "InfrastructureConfig"}
                 /\ pc \notin SubConfigSet) => pc = "aborted"

\* every section was built and the aggregate's own validation failed
C18_Witness ==
  /\ pc = "aborted"
  /\ SubConfigSet \subseteq DOMAIN built
  /\ error.type = "ValidationError"
  /\ RequestedEnvironment \notin EnvironmentName
  /\ NoAggregate
  /\ stacks = <<>>
  /\ ~synthesized

---------------------------------------------------------------------------
(* C19: the aggregate is read-only from its construction: no stack         *)
(* constructor, add_dependency or synth step changes a field of the        *)
(* aggregate or of a sub-configuration, so the aggregate the last consumer *)
(* sees is the one create_config returned.                                 *)

---------------------------------------------------------------------------
(* C20: each of the eight top-level keys aws, vpc, database, backend,      *)
(* frontend, cicd_fronend, cicd_backend and dns is required: when the      *)
(* file's mapping lacks one, create_config fails at that entry with a      *)
(* KeyError for the key, no sub-configuration is built for it from         *)
(* defaults, and no aggregate is returned.                                 *)

\* The file is a mapping without the key
Omitted(key) ==
  /\ FileExists
  /\ fs[RequestedPath].t = "map"
  /\ key \notin DOMAIN fs[RequestedPath].top

C20_SectionsRequired ==
  \A key \in SubConfigSet :
    Omitted(key) =>
      /\ ~Constructed(key)
      /\ NoAggregate
      /\ pc # "done"
      /\ Passed(key) =>
           /\ pc = "aborted"
           /\ error.type = "KeyError"
           /\ error.loc = {key}

\* the last key is the one omitted: seven sections built, then the KeyError
C20_Witness ==
  /\ Omitted("dns")
  /\ Constructed("cicd_backend")
  /\ pc = "aborted"
  /\ error.type = "KeyError"
  /\ error.loc = {"dns"}

---------------------------------------------------------------------------
(* C21: the stacks are constructed one after the other in the order        *)
(* NetworkStack, SecurityStack, DatabaseStack, EksBackendStack,            *)
(* FrontendStack, CICDK8sDeployStack; each stack is given outputs of       *)
(* stacks constructed before it only; CICDK8sDeployStack is declared       *)
(* dependent on EksBackendStack; and app.synth() runs only once all six    *)
(* exist and the dependency is declared.                                   *)

StackOrder ==
  << "NetworkStack", "SecurityStack", "DatabaseStack", "EksBackendStack",
     "FrontendStack", "CICDK8sDeployStack" >>

C21_StackOrder ==
  /\ Len(stacks) <= Len(StackOrder)
  /\ \A i \in DOMAIN stacks :
       /\ stacks[i].id = StackOrder[i]
       /\ stacks[i].inputs \subseteq {stacks[j].id : j \in 1..(i - 1)}
  /\ dependencies \subseteq {<< "CICDK8sDeployStack", "EksBackendStack" >>}
  /\ dependencies # {} => Len(stacks) = Len(StackOrder)
  /\ synthesized =>
       /\ Len(stacks) = Len(StackOrder)
       /\ << "CICDK8sDeployStack", "EksBackendStack" >> \in dependencies

\* the backend stack has just been given outputs of the three stacks before it
C21_Witness ==
  /\ pc = "FrontendStack"
  /\ Len(stacks) = 4
  /\ stacks[4].id = "EksBackendStack"
  /\ stacks[4].inputs = {"NetworkStack", "SecurityStack", "DatabaseStack"}
  /\ ~synthesized

---------------------------------------------------------------------------
(* C22: every AwsConfig that exists, on its own or inside the aggregate,   *)
(* has a non-empty account: construction with the empty string fails.      *)

AccountInputs ==
  {PyStr(<<>>), PyStr(<<"1">>), PyStr(<<"1","2","3","4","5","6","7","8","9","0","1","2">>), PyStr(<<" ">>), PyInt(1), None}

RegionInputs == {PyStr(<<"e","u","-","w","e","s","t","-","1">>), PyStr(<<"u","s","-","e","a","s","t","-","2">>), PyStr(<<"m","a","r","s","-","1">>), PyStr(<<>>)}

\* Every aws section over the account and region inputs
InitAws ==
  \E account \in AccountInputs, region \in RegionInputs,
     names \in SUBSET {"account", "region"} :
    Started(DefaultContext,
            Files({<<"d","e","v">>},
                  ExampleWith("aws", [n \in names |-> IF n = "account" THEN account
                                                      ELSE region])))

SpecAws == InitAws /\ [][Next]_vars

C22_AccountNonEmpty ==
  /\ Constructed("aws") => built.aws.account.s # <<>>
  /\ ~NoAggregate => config.aws.account.s # <<>>

---------------------------------------------------------------------------
(* C23: VpcConfig does not compare max_azs with reserved_azs: for every    *)
(* pair of integers, max_azs below reserved_azs included, construction     *)
(* succeeds and the object holds both values as supplied.                  *)

\* The largest zone count supplied to a VpcConfig
MaxAzs == 3

AzInputs == {PyInt(n) : n \in -1..MaxAzs} \cup {PyFloat(6), None}

\* Every vpc section over the zone-count inputs
InitVpc ==
  \E kw \in Choices({"max_azs", "reserved_azs"}, AzInputs) :
    Started(DefaultContext, Files({<<"d","e","v">>}, ExampleWith("vpc", kw)))

SpecVpc == InitVpc /\ [][Next]_vars

VpcIntegers ==
  /\ Given("vpc", "max_azs").t = "int"
  /\ Given("vpc", "reserved_azs").t = "int"

C23_AzsNotCompared ==
  (Passed("vpc") /\ VpcIntegers) =>
    /\ Constructed("vpc")
    /\ built.vpc.max_azs = Given("vpc", "max_azs")
    /\ built.vpc.reserved_azs = Given("vpc", "reserved_azs")
    /\ ~NoAggregate =>
         /\ config.vpc.max_azs = Given("vpc", "max_azs")
         /\ config.vpc.reserved_azs = Given("vpc", "reserved_azs")

\* an aggregate whose vpc has fewer zones than it reserves
C23_Witness ==
  /\ ~NoAggregate
  /\ {"max_azs", "reserved_azs"} \subseteq DOMAIN Supplied("vpc")
  /\ config.vpc.max_azs = PyInt(1)
  /\ config.vpc.reserved_azs = PyInt(3)

---------------------------------------------------------------------------
(* C24: a record's cross-field validator runs only when every field has    *)
(* passed its own validation: an input that breaks a field's lower bound   *)
(* (database minimum below 0.5, backend minimum below 1) and also has      *)
(* minimum >= maximum fails with the field-level error, which names the    *)
(* field and carries no cross-field message.                               *)

FieldLevelError(key, names) ==
  /\ pc = "aborted"
  /\ ~Constructed(key)
  /\ error.type = "ValidationError"
  /\ error.loc = names
  /\ error.msg = <<>>

C24_FieldErrorsFirst ==
  /\ (/\ Passed("database")
      /\ DatabaseInverted
      /\ PyLt(Given("database", "serverless_v2_min_capacity"), Half)) =>
       FieldLevelError("database", {"serverless_v2_min_capacity"})
  /\ (/\ Passed("backend")
      /\ BackendInverted
      /\ PyLt(Given("backend", "auto_scaling_min_capacity"), One)) =>
       FieldLevelError("backend", {"auto_scaling_min_capacity"})

\* a database minimum of 0.25 with a maximum of 0.25
C24_Witness ==
  /\ FieldLevelError("database", {"serverless_v2_min_capacity"})
  /\ Passed("database")
  /\ Given("database", "serverless_v2_min_capacity") = PyFloat(1)
  /\ Given("database", "serverless_v2_max_capacity") = PyFloat(1)

\* a backend minimum of 0 with a maximum of 0
C24_WitnessBackend ==
  /\ FieldLevelError("backend", {"auto_scaling_min_capacity"})
  /\ Passed("backend")
  /\ Given("backend", "auto_scaling_min_capacity") = PyInt(0)
  /\ Given("backend", "auto_scaling_max_capacity") = PyInt(0)

---------------------------------------------------------------------------
(* C25: create_config fails on the first violation in the order aws, vpc,  *)
(* database, backend, frontend, cicd_fronend, cicd_backend, dns, then the  *)
(* aggregate: when several sections of the file are absent or invalid, the *)
(* error raised is that of the earliest one, every section before it is    *)
(* built, and neither it nor any later section is ever constructed.        *)

\* The file's mapping lacks the section or its constructor rejects it
Bad(key) == ~InFile(key) \/ ~ClassOf(key, Supplied(key)).ok

ErrorOf(key) ==
  IF ~InFile(key) THEN Raised("KeyError", {key}, <<>>)
  ELSE ClassOf(key, Supplied(key)).err

C25_FailFast ==
  /\ (FileExists /\ fs[RequestedPath].t = "map") =>
       \A i \in DOMAIN SubConfigKeys :
         (Bad(SubConfigKeys[i]) /\ \A j \in 1..(i - 1) : ~Bad(SubConfigKeys[j])) =>
           /\ \A j \in i..Len(SubConfigKeys) : ~Constructed(SubConfigKeys[j])
           /\ NoAggregate
           /\ pc = "aborted" =>
                /\ error = ErrorOf(SubConfigKeys[i])
                /\ \A j \in 1..(i - 1) : Constructed(SubConfigKeys[j])
  /\ (/\ pc = "aborted"
      /\ FileExists
      /\ fs[RequestedPath].t = "map"
      /\ \A key \in SubConfigSet : ~Bad(key)) =>
       /\ SubConfigSet \subseteq DOMAIN built
       /\ error.type = "ValidationError"
       /\ error.loc = {"env_name"}

\* the vpc section is rejected and the dns section absent: the vpc error
C25_Witness ==
  /\ pc = "aborted"
  /\ InFile("vpc")
  /\ Bad("vpc")
  /\ ~InFile("dns")
  /\ FileExists
  /\ error = VpcConfig(Supplied("vpc")).err
  /\ error.loc = {"max_azs"}
  /\ Constructed("aws")
  /\ ~Constructed("database")

---------------------------------------------------------------------------
(* C26: every aggregate create_config returns has env_name in {dev,        *)
(* staging, prod}; for an environment name outside that set no aggregate   *)
(* is ever returned, even when the file of that name exists and all its    *)
(* sections are valid.                                                     *)

ClosedEnvironments == {<<"d","e","v">>, <<"s","t","a","g","i","n","g">>, <<"p","r","o","d">>}

C26_EnvNameClosed ==
  /\ ~NoAggregate =>
       /\ config.env_name.s \in ClosedEnvironments
       /\ config.env_name.s = RequestedEnvironment
  /\ RequestedEnvironment \notin ClosedEnvironments =>
       (NoAggregate /\ stacks = <<>> /\ pc # "done")

\* environment 'qa', whose file exists and is the valid example file
C26_Witness ==
  /\ RequestedEnvironment = <<"q","a">>
  /\ FileExists
  /\ fs[RequestedPath] = ExampleDocument
  /\ pc = "aborted"
  /\ error.type = "ValidationError"
  /\ error.loc = {"env_name"}
  /\ \A key \in SubConfigSet : Constructed(key)

---------------------------------------------------------------------------
(* C27: whenever a section of the file supplies a key that its             *)
(* sub-configuration does not define, create_config fails: no object is    *)
(* built for the section and no aggregate returned.                        *)

\* Keys no sub-configuration defines: a misspelling of max_azs and another
UnknownKeys == {"max_az", "comment"}

\* The example file with a key that its section does not define added to
\* one section, whose fields are those of the example or none
InitUnknown ==
  \E key \in SubConfigSet, unknown \in UnknownKeys :
    \E names \in {ExampleKeys(key),
                  {n \in ExampleKeys(key) : FieldNamed(SchemaOf(key), n).required}} :
      Started(DefaultContext,
              Files({<<"d","e","v">>},
                    ExampleWith(key, Supplying(key, names) @@ (unknown :> PyInt(2)))))

SpecUnknown == InitUnknown /\ [][Next]_vars

HasUnknownKey(key) ==
  InFile(key) /\ ~(DOMAIN Supplied(key) \subseteq FieldNames(SchemaOf(key)))

C27_UnknownKeysRejected ==
  \A key \in SubConfigSet :
    HasUnknownKey(key) => (~Constructed(key) /\ NoAggregate)

---------------------------------------------------------------------------
(* C28: the aggregate's env_name and project_name are the arguments the    *)
(* ConfigLoader was constructed with; top-level env_name and project_name  *)
(* keys of the file, as in the documented example file, change nothing in  *)
(* the aggregate and do not make create_config fail.                       *)

\* A top-level key of the file whose value is a scalar
Scalar(v) == [t |-> "scalar", kw |-> [value |-> v]]

\* The top-level env_name and project_name keys a file may have
TopLevelKeys ==
  UNION {[names -> {PyStr(<<"d","e","v">>), PyStr(<<"s","t","a","g","i","n","g">>), PyStr(<<"q","a">>),
                    PyStr(<<"m","y","-","p","r","o","j","e","c","t">>)}] :
           names \in SUBSET {"env_name", "project_name"}}

\* The documented example file, with and without its top-level keys
InitTopLevel ==
  \E ctx \in Contexts, keys \in TopLevelKeys :
    Started(ctx,
            Files({<<"d","e","v">>, <<"p","r","o","d">>, <<"q","a">>},
                  [t |-> "map",
                   top |-> [k \in DOMAIN keys |-> Scalar(keys[k])] @@ ExampleDocument.top]))

SpecTopLevel == InitTopLevel /\ [][Next]_vars

C28_FileNamesIgnored ==
  /\ ~NoAggregate =>
       /\ config.env_name.s = env_name
       /\ config.project_name.s = project_name
       /\ config_loader.env_name = env_name
       /\ config_loader.project_name = project_name
       /\ \A key \in SubConfigSet : config[key] = ClassOf(key, Supplied(key)).obj
  /\ RequestedEnvironment \in ClosedEnvironments => pc # "aborted"

\* the file says staging and my-project, the aggregate dev and piercuta
C28_Witness ==
  /\ pc = "done"
  /\ {"env_name", "project_name"} \subseteq DOMAIN fs[RequestedPath].top
  /\ fs[RequestedPath].top["env_name"].kw.value = PyStr(<<"s","t","a","g","i","n","g">>)
  /\ fs[RequestedPath].top["project_name"].kw.value = PyStr(<<"m","y","-","p","r","o","j","e","c","t">>)
  /\ config.env_name.s = <<"d","e","v">>
  /\ config.project_name.s = <<"p","i","e","r","c","u","t","a">>

---------------------------------------------------------------------------
(* C29: in every deployment that respects the dependencies the EksCluster  *)
(* construct declares, the node role is created before the cluster; the    *)
(* cluster before each of the four addons, before the access entry and     *)
(* before both security-group ingress rules; the eks-pod-identity-agent    *)
(* addon before the ALB-controller pod identity association; and no        *)
(* resource that names the cluster is created before the cluster.          *)

\* The process of app.py followed by the deployment of what it synthesized
NextDeploy == Next \/ Deploy

\* Every context, the documented example file for each environment
InitDeploy ==
  \E ctx \in Contexts :
    Started(ctx, Files({<<"d","e","v">>, <<"p","r","o","d">>, <<"q","a">>}, ExampleDocument))

SpecDeploy == InitDeploy /\ [][NextDeploy]_vars

Addons == {"VpcCniAddon", "KubeProxyAddon", "CoreDnsAddon", "PodIdentityAgentAddon"}

\* The resources with a cluster_name property or a cluster attribute
NamesCluster ==
  Addons \cup {"AccessEntry2", "PodIdentityAssociationAlbController",
               "EksClusterToFastApiIngress", "FastApiToEksClusterIngress"}

Before(first, second) == second \in deployed => first \in deployed

C29_DeploymentOrder ==
  /\ Before("EksNodeRole", "EksCluster")
  /\ \A addon \in Addons : Before("EksCluster", addon)
  /\ Before("EksCluster", "AccessEntry2")
  /\ Before("EksCluster", "EksClusterToFastApiIngress")
  /\ Before("EksCluster", "FastApiToEksClusterIngress")
  /\ Before("PodIdentityAgentAddon", "PodIdentityAssociationAlbController")
  /\ \A resource \in NamesCluster : Before("EksCluster", resource)
  /\ deployed # {} => synthesized

\* the association is created while other addons and the access entry are not
C29_Witness ==
  /\ "PodIdentityAssociationAlbController" \in deployed
  /\ "PodIdentityAgentAddon" \in deployed
  /\ "EksCluster" \in deployed
  /\ "CoreDnsAddon" \notin deployed
  /\ "AccessEntry2" \notin deployed

---------------------------------------------------------------------------
(* C30: for every BackendConfig that exists, built from defaults included, *)
(* task_cpu_int and task_memory_int return an integer and raise no error.  *)

ReturnsInteger(result) == result.ok /\ result.obj.t = "int"

C30_CpuAndMemoryIntegers ==
  /\ Constructed("backend") =>
       /\ ReturnsInteger(task_cpu_int(built.backend))
       /\ ReturnsInteger(task_memory_int(built.backend))
  /\ ~NoAggregate =>
       /\ ReturnsInteger(task_cpu_int(config.backend))
       /\ ReturnsInteger(task_memory_int(config.backend))

====
